---- MODULE Spec2Model ----
(***************************************************************************)
(* Snake3DGame: the per-frame simulation (step), the scene adapter         *)
(* (renderSnake), the frame driver (animate), the input handlers and the   *)
(* React state they update, as a state machine.                            *)
(*                                                                         *)
(* Numbers are fixed point.  A length or coordinate is an integer number   *)
(* of 1/U world units, a time an integer number of 1/T seconds, a control  *)
(* axis an integer number of 1/AX, a yaw an integer number of 1/F radians, *)
(* a direction cosine, a lerp factor or an rng draw an integer number of   *)
(* 1/F.  Products are divided back truncating towards zero.  The inputs    *)
(* the specifications draw (frame gaps, speeds) are chosen so that a       *)
(* straight run is exact.                                                  *)
(***************************************************************************)
EXTENDS Integers, Sequences, FiniteSets, TLC

U  == 10 * 100        \* coordinate units per world unit
T  == 20 * 100        \* time units per second
AX == 1 + 1           \* control-axis units per 1.0
F  == 100 * 100       \* units per 1.0 of a cosine, a factor, a radian
SU == 10 * 10         \* steerSensitivity units per 1.0

\* ---------------------------------------------------------------- constants
ARENA_SIZE       == 60 * U
HALF_ARENA       == ARENA_SIZE \div 2
BASE_SPEED       == 8 * U                 \* per second
TURN_SPEED       == (23 * F) \div 10      \* 2.3 rad/sec
SEGMENT_SPACING  == (6 * U) \div 10
BASE_LENGTH      == (55 * U) \div 10
LENGTH_PER_SCORE == (85 * U) \div 100
FOOD_RADIUS      == (38 * U) \div 100
HEAD_RADIUS      == (75 * U) \div 100
FOOD_MARGIN      == (16 * U) \div 10      \* randomFoodPosition: margin
WALL_INSET       == (6 * U) \div 10       \* step: half = HALF_ARENA - 0.6
HIT_RADIUS       == (72 * U) \div 100     \* step: hitDist < 0.72
NECK_SAMPLES     == 18                    \* step: for (let i = 18; ...)
PUSH_EPSILON     == U \div 100            \* integrateSpine: > 0.01
MAX_DT           == T \div 5              \* animate: Math.min(..., 0.2)
BOOST_PERCENT    == 35                    \* step: 1 + 0.35 * speedBoost
maxInstances     == 1500

\* ------------------------------------------------------------- arithmetic
Abs(n) == IF n < 0 THEN -n ELSE n
Min(a, b) == IF a < b THEN a ELSE b
Max(a, b) == IF a > b THEN a ELSE b

\* Division truncating towards zero (d > 0).
Quot(n, d) == IF n >= 0 THEN n \div d ELSE -((-n) \div d)

\* JavaScript's %: the remainder has the sign of the dividend (d > 0).
JsRem(n, d) == n - d * Quot(n, d)

\* Math.round of n/d (d > 0): the nearest integer, halves towards +infinity.
JsRound(n, d) == (2 * n + d) \div (2 * d)

\* Math.floor of n/d (d > 0).
JsFloor(n, d) == n \div d

RECURSIVE SqrtSearch(_, _, _)
SqrtSearch(n, lo, hi) ==
    IF lo >= hi THEN lo
    ELSE LET mid == (lo + hi + 1) \div 2
         IN  IF mid * mid <= n THEN SqrtSearch(n, mid, hi)
                               ELSE SqrtSearch(n, lo, mid - 1)

\* The integer part of the square root of n >= 0.
Sqrt(n) == SqrtSearch(n, 0, Min(n, 46340))

\* n * n for n >= 0 as the two-digit number <<high, low>> in base Wide, for the
\* squares that leave 32 bits.
Wide == 10000
WideSquare(n) ==
    LET a   == n \div 100
        b   == n % 100
        low == 200 * a * b + b * b
    IN  <<a * a + low \div Wide, low % Wide>>

WideSum(p, q) == <<p[1] + q[1] + (p[2] + q[2]) \div Wide, (p[2] + q[2]) % Wide>>

WideLeq(p, q) == p[1] < q[1] \/ (p[1] = q[1] /\ p[2] <= q[2])

RECURSIVE WideSqrtSearch(_, _, _)
WideSqrtSearch(n, lo, hi) ==
    IF lo >= hi THEN lo
    ELSE LET mid == (lo + hi + 1) \div 2
         IN  IF WideLeq(WideSquare(mid), n) THEN WideSqrtSearch(n, mid, hi)
                                            ELSE WideSqrtSearch(n, lo, mid - 1)

\* Math.hypot / Vector3.length of (dx, dz), in the units of dx and dz: the
\* integer part of the length, which lies between the longer side and the sum
\* of the sides.  Beyond FarLimit the squares leave 32 bits and are taken in
\* two digits.
FarLimit == 30 * U
Hypot(dx, dz) ==
    IF Abs(dx) <= FarLimit /\ Abs(dz) <= FarLimit
    THEN SqrtSearch(dx * dx + dz * dz, Max(Abs(dx), Abs(dz)),
                    Min(Abs(dx) + Abs(dz), 46340))
    ELSE WideSqrtSearch(WideSum(WideSquare(Abs(dx)), WideSquare(Abs(dz))),
                        Max(Abs(dx), Abs(dz)), Abs(dx) + Abs(dz))

Vec(x, z) == [x |-> x, z |-> z]
distanceTo(a, b) == Hypot(a.x - b.x, a.z - b.z)

\* Vector3.lerp(b, num/den) from a.
Lerp(a, b, num, den) ==
    Vec(a.x + Quot((b.x - a.x) * num, den), a.z + Quot((b.z - a.z) * num, den))

clamp(value, min, max) == Min(Max(value, min), max)

\* Math.sin and Math.cos of a yaw in 1/F radians, in 1/F, by their power
\* series on [-pi/2, pi/2] after reduction by the period and the symmetries.
PI_F    == 31416
HALF_PI == PI_F \div 2
SinSeries(x) ==
    LET x2 == (x * x) \div F
        t4 == F - x2 \div 72
        t3 == F - ((x2 * t4) \div F) \div 42
        t2 == F - ((x2 * t3) \div F) \div 20
        t1 == F - ((x2 * t2) \div F) \div 6
    IN  Quot(x * t1, F)
CosSeries(x) ==
    LET x2 == (x * x) \div F
        t5 == F - x2 \div 90
        t4 == F - ((x2 * t5) \div F) \div 56
        t3 == F - ((x2 * t4) \div F) \div 30
        t2 == F - ((x2 * t3) \div F) \div 12
    IN  F - ((x2 * t2) \div F) \div 2
\* yaw reduced to (-pi, pi]
ReduceYaw(yaw) ==
    LET m == yaw % (2 * PI_F) IN IF m > PI_F THEN m - 2 * PI_F ELSE m
Sin(yaw) ==
    LET r == ReduceYaw(yaw)
    IN  IF r > HALF_PI THEN SinSeries(PI_F - r)
        ELSE IF r < -HALF_PI THEN SinSeries(-PI_F - r)
        ELSE SinSeries(r)
Cos(yaw) ==
    LET r == ReduceYaw(yaw)
    IN  IF r > HALF_PI THEN -CosSeries(PI_F - r)
        ELSE IF r < -HALF_PI THEN -CosSeries(-PI_F - r)
        ELSE CosSeries(r)

\* Math.exp(-x) for x >= 0 in 1/F, in 1/F: the series on [0, 1/2], squared
\* back up.
ExpNegSeries(y) ==
    LET t5 == F - y \div 5
        t4 == F - ((y * t5) \div F) \div 4
        t3 == F - ((y * t4) \div F) \div 3
        t2 == F - ((y * t3) \div F) \div 2
    IN  F - (y * t2) \div F
RECURSIVE ExpNeg(_)
ExpNeg(x) ==
    IF x <= F \div 2 THEN ExpNegSeries(x)
    ELSE LET h == ExpNeg(x \div 2) IN (h * h) \div F

\* ------------------------------------------------- geometry/math utilities
\* A wrap with the first remainder only.
wrapCoordOneRemainder(value) == JsRem(value + HALF_ARENA, ARENA_SIZE) - HALF_ARENA

wrapCoord(value) ==
    LET m == JsRem(JsRem(value + HALF_ARENA, ARENA_SIZE) + ARENA_SIZE, ARENA_SIZE)
    IN  m - HALF_ARENA

\* A wrap of a difference into (-HALF_ARENA, HALF_ARENA].
wrapDeltaHalfUp(delta) ==
    HALF_ARENA - JsRem(JsRem(HALF_ARENA - delta, ARENA_SIZE) + ARENA_SIZE, ARENA_SIZE)

wrapDelta(delta) ==
    LET m == JsRem(JsRem(delta + HALF_ARENA, ARENA_SIZE) + ARENA_SIZE, ARENA_SIZE)
    IN  m - HALF_ARENA

wrapVectorXZ(v) == Vec(wrapCoord(v.x), wrapCoord(v.z))

wrapVectorXZToNearest(vWrapped, reference) ==
    LET kx == JsRound(reference.x - vWrapped.x, ARENA_SIZE)
        kz == JsRound(reference.z - vWrapped.z, ARENA_SIZE)
    IN  Vec(vWrapped.x + kx * ARENA_SIZE, vWrapped.z + kz * ARENA_SIZE)

\* A torus distance that adds the two wrapped differences.
torusDistanceTaxicab(a, b) == Abs(wrapDelta(a.x - b.x)) + Abs(wrapDelta(a.z - b.z))

torusDistanceXZ(a, b) == Hypot(wrapDelta(a.x - b.x), wrapDelta(a.z - b.z))

\* 1 - Math.exp(-responsiveness * dt), in 1/F; responsiveness per second.
smoothAlpha(dt, responsiveness) == F - ExpNeg((responsiveness * dt * F) \div T)

\* rng() is a draw r/RngDen of [0, 1): r \in 0 .. RngDen - 1.
RngDen == (2 * (HALF_ARENA - FOOD_MARGIN)) \div 100
randBetween(r, min, max) == min + Quot((max - min) * r, RngDen)

\* A food position anywhere in the arena, with no margin.
randomFoodAnywhere(r1, r2) ==
    Vec(randBetween(r1, -HALF_ARENA, HALF_ARENA), randBetween(r2, -HALF_ARENA, HALF_ARENA))

randomFoodPosition(r1, r2) ==
    Vec(randBetween(r1, -HALF_ARENA + FOOD_MARGIN, HALF_ARENA - FOOD_MARGIN),
        randBetween(r2, -HALF_ARENA + FOOD_MARGIN, HALF_ARENA - FOOD_MARGIN))

\* Vector3.normalize of (x, 0, z), components in 1/F.
scaleTo(x, z, len) ==
    IF len = 0 THEN Vec(0, 0) ELSE Vec(Quot(x * F, len), Quot(z * F, len))
normalize(x, z) == scaleTo(x, z, Hypot(x, z))

\* A forward vector that points to +z at yaw 0.
forwardTowardsPlusZ(yaw) == normalize(Sin(yaw), Cos(yaw))

\* new Vector3(Math.sin(yaw), 0, -Math.cos(yaw)).normalize()
forwardFromYaw(yaw) == normalize(Sin(yaw), -Cos(yaw))

\* -------------------------------------------------------------------- state
VARIABLES
    \* React state (useState), as of the last committed render
    score, bestScore, isPaused, isGameOver, cameraMode,
    isWallWrapEnabled, steerSensitivity, isHapticsEnabled,
    \* setState calls not yet rendered, oldest first
    pending,
    \* refs
    scoreRef, cameraModeRef, steerSensitivityRef, isHapticsEnabledRef,
    isWallWrapEnabledRef, isPausedRef, isGameOverRef,
    headPosRef, yawRef, spineRef, foodPosRef, headWrapShiftRef, controlsRef,
    joystickActiveRef,
    \* the effect's locals and the scene it draws
    cameraPos, headMesh, foodMesh, cameraLook, wallsVisible,
    \* the instanced body mesh: its count and the instances set so far
    snakeMesh,
    \* the frame in progress: "idle", or "render" between step and renderSnake
    pc, frameDt,
    \* the patterns handed to navigator.vibrate by the last handler
    vibrated,
    \* the last handler that ran, the frames and the input events so far
    handler, frames, inputs,
    \* e.key of the keyboard event the last handler took ("" for any other)
    key,
    \* the highest score so far, counting the persisted best score
    peak,
    \* the component is in the tree; the frame callback is requested; the key
    \* listeners are on window; the setTimeout callbacks not yet run
    mounted, rafRequested, listening, timeouts,
    \* the last call of a math utility made on its own: its name, its
    \* arguments and its results
    probe

uiVars   == <<score, bestScore, isPaused, isGameOver, cameraMode,
              isWallWrapEnabled, steerSensitivity, isHapticsEnabled>>
refVars  == <<cameraModeRef, steerSensitivityRef, isHapticsEnabledRef,
              isWallWrapEnabledRef, isPausedRef, isGameOverRef>>
gameVars == <<scoreRef, headPosRef, yawRef, spineRef, foodPosRef, headWrapShiftRef>>
ctlVars  == <<controlsRef, joystickActiveRef>>
viewVars == <<cameraPos, headMesh, foodMesh, cameraLook, wallsVisible, snakeMesh>>
lifeVars == <<mounted, rafRequested, listening, timeouts>>
vars     == <<uiVars, pending, refVars, gameVars, ctlVars, viewVars,
              pc, frameDt, vibrated, handler, frames, inputs, key, peak, lifeVars,
              probe>>

Origin == Vec(0, 0)

\* The patterns of the feedback pulses.
DeathPattern  == <<60, 40, 80>>
PickupPattern == <<16>>
ResetPattern  == <<10>>
TapPattern    == <<8>>

\* vibrate(pattern): nothing when haptics are off.
vibrate(enabled, pattern) == IF enabled THEN <<pattern>> ELSE <<>>

\* ------------------------------------------------------------ React state
\* A setState call: a plain value ("set"), or an updater ("toggle", "inc").
Update(hook, op, val) == [hook |-> hook, op |-> op, val |-> val]

\* setX(value).  With nothing pending React computes the state eagerly and
\* drops a call that would not change it.
SetValue(q, hook, val, current) ==
    IF q = <<>> /\ val = current THEN q ELSE Append(q, Update(hook, "set", val))

\* The state one update leaves.
ApplyUpdate(u, current) ==
    CASE u.op = "set"    -> u.val
      [] u.op = "toggle" -> IF u.hook = "cameraMode"
                            THEN (IF current = "head" THEN "chase" ELSE "head")
                            ELSE ~current
      [] u.op = "inc"    -> current + 1

\* The value of hook after the updates of q, from current.
RECURSIVE Reduce(_, _, _)
Reduce(q, hook, current) ==
    IF q = <<>> THEN current
    ELSE Reduce(Tail(q), hook,
                IF Head(q).hook = hook THEN ApplyUpdate(Head(q), current) ELSE current)

\* scoreRef after the render runs the setScore updaters of q: each one run
\* assigns scoreRef.current = s + 1.
RECURSIVE ReduceScoreRef(_, _, _)
ReduceScoreRef(q, s, ref) ==
    IF q = <<>> THEN ref
    ELSE LET u == Head(q)
         IN  IF u.hook # "score" THEN ReduceScoreRef(Tail(q), s, ref)
             ELSE IF u.op = "inc" THEN ReduceScoreRef(Tail(q), s + 1, s + 1)
             ELSE ReduceScoreRef(Tail(q), u.val, ref)

\* ----------------------------------------------------------------- spine
\* integrateSpine, first half: a new front point when the head has moved more
\* than 0.01 from the front point, else the front point overwritten.
PushHead(spine, headPos) ==
    IF distanceTo(spine[1], headPos) > PUSH_EPSILON
    THEN <<headPos>> \o spine
    ELSE <<headPos>> \o Tail(spine)

\* A walk that cuts nothing.
TrimNothing(spine, i, remaining) == spine

\* A walk that drops the segment that overshoots, and cuts no point into it.
RECURSIVE TrimWholeSegments(_, _, _)
TrimWholeSegments(spine, i, remaining) ==
    IF i > Len(spine) - 1 THEN spine
    ELSE IF distanceTo(spine[i], spine[i + 1]) <= remaining
         THEN TrimWholeSegments(spine, i + 1, remaining - distanceTo(spine[i], spine[i + 1]))
         ELSE SubSeq(spine, 1, i)

\* integrateSpine, second half: the walk from the head that consumes
\* desiredLength, cuts the segment that overshoots and drops the rest.
\* i is the (1-based) place of the segment's first point.
RECURSIVE TrimToLength(_, _, _)
TrimToLength(spine, i, remaining) ==
    IF i > Len(spine) - 1 THEN spine
    ELSE LET a      == spine[i]
             b      == spine[i + 1]
             segLen == distanceTo(a, b)
         IN  IF segLen <= remaining
             THEN TrimToLength(spine, i + 1, remaining - segLen)
             ELSE LET cut == IF segLen = 0 THEN a ELSE Lerp(a, b, remaining, segLen)
                  IN  SubSeq(spine, 1, i) \o <<cut>>

integrateSpine(spine, headPos, desiredLength) ==
    IF Len(spine) = 0 THEN <<headPos>>
    ELSE TrimToLength(PushHead(spine, headPos), 1, desiredLength)

\* The sum of the distances between consecutive points of spine.
RECURSIVE ArcLength(_)
ArcLength(spine) ==
    IF Len(spine) < 2 THEN 0
    ELSE distanceTo(spine[1], spine[2]) + ArcLength(Tail(spine))

RECURSIVE sampleAlongSpine(_, _)
sampleAlongSpine(spine, distanceFromHead) ==
    IF Len(spine) = 0 THEN Origin
    ELSE IF Len(spine) = 1 THEN spine[1]
    ELSE LET a      == spine[1]
             b      == spine[2]
             segLen == distanceTo(a, b)
         IN  IF segLen <= distanceFromHead
             THEN sampleAlongSpine(Tail(spine), distanceFromHead - segLen)
             ELSE IF segLen = 0 THEN a ELSE Lerp(a, b, distanceFromHead, segLen)

\* ------------------------------------------------------------------ step
\* A step without its first line.
StepRunsAlways == TRUE

\* step's first line: it returns at once while paused or game over.
StepRuns == ~(isPausedRef \/ isGameOverRef)

steerAxis(c) ==
    ((IF c.keySteerRight THEN AX ELSE 0) - (IF c.keySteerLeft THEN AX ELSE 0))
        + c.touchSteerAxis

speedAxis(c) ==
    ((IF c.keyFaster THEN -AX ELSE 0) + (IF c.keySlower THEN AX ELSE 0))
        + c.touchSpeedAxis

\* BASE_SPEED * (1 + 0.35 * clamp(-speedAxis, -1, 1)), per second.
speedOf(c) ==
    LET speedBoost == clamp(-speedAxis(c), -AX, AX)
    IN  BASE_SPEED + Quot(BASE_SPEED * BOOST_PERCENT * speedBoost, 100 * AX)

\* A yaw step with the steer axis as summed, not clamped.
yawStepStacked(c, sens, dt) ==
    Quot((TURN_SPEED \div 100) * (steerAxis(c) * sens * dt), (AX * SU * T) \div 100)

\* clamp(steer, -1, 1) * TURN_SPEED * steerSensitivity * dt (a factor of 100
\* is cancelled to stay within 32 bits).
yawStep(c, sens, dt) ==
    Quot((TURN_SPEED \div 100) * (clamp(steerAxis(c), -AX, AX) * sens * dt),
         (AX * SU * T) \div 100)

\* headPos.add(forward.multiplyScalar(speed * dt))
\* v + forward * dist
addScaled(headPos, forward, dist) ==
    Vec(headPos.x + Quot(forward.x * dist, F), headPos.z + Quot(forward.z * dist, F))
advance(headPos, yaw, speed, dt) ==
    addScaled(headPos, forwardFromYaw(yaw), Quot(speed * dt, T))

\* Bounded mode: the head is past a wall.
OutOfBounds(headPos) ==
    LET half == HALF_ARENA - WALL_INSET
    IN  Abs(headPos.x) > half \/ Abs(headPos.z) > half

\* The distance step uses for the food and for the body.
gameDistance(wrap, a, b) ==
    IF wrap THEN torusDistanceXZ(a, b) ELSE distanceTo(a, b)

\* The indices beyond NECK_SAMPLES only.
HitIndicesBeyond(spine) == (NECK_SAMPLES + 1) .. (Len(spine) - 1)

\* The spine indices (0-based, as in the code) the self-collision loop visits.
HitIndices(spine) == NECK_SAMPLES .. (Len(spine) - 1)

SelfHit(wrap, headPos, spine) ==
    \E i \in HitIndices(spine) : gameDistance(wrap, headPos, spine[i + 1]) < HIT_RADIUS

FoodHit(wrap, headPos, foodPos) ==
    gameDistance(wrap, headPos, foodPos) < HEAD_RADIUS + FOOD_RADIUS

ShiftPoint(p, shift) == Vec(p.x - shift.x, p.z - shift.z)
ShiftSpine(spine, shift) == [i \in 1 .. Len(spine) |-> ShiftPoint(spine[i], shift)]

desiredLengthOf(s) == BASE_LENGTH + s * LENGTH_PER_SCORE

\* A pickup that counts twice.
SetScoreTwice(q, eager) ==
    Append(Append(q, Update("score", "inc", 0)), Update("score", "inc", 0))

\* setScore((s) => { scoreRef.current = s + 1; return s + 1 }).  React runs
\* the updater at once when nothing is pending (eager) and keeps its result,
\* or else at the next render.
SetScoreInc(q, eager) ==
    IF eager /\ q = <<>> THEN <<Update("score", "set", score + 1)>>
    ELSE Append(q, Update("score", "inc", 0))

\* What step reads and writes, as the frame finds it.  pickup, folded, shift,
\* over and hit record what the step did: ate the food, folded the head by
\* shift, returned at the wall, found the head on the body.
StepState ==
    [yaw |-> yawRef, headPos |-> headPosRef, spine |-> spineRef,
     camera |-> cameraPos, foodPos |-> foodPosRef, scoreRef |-> scoreRef,
     pending |-> pending, vibrated |-> <<>>,
     pickup |-> FALSE, folded |-> FALSE, shift |-> Origin,
     over |-> FALSE, hit |-> FALSE]

\* yawRef.current += clamp(steer, -1, 1) * TURN_SPEED * sensitivity * dt
turn(g, dt) ==
    [g EXCEPT !.yaw = @ + yawStep(controlsRef, steerSensitivityRef, dt)]

\* headPos.add(forward.multiplyScalar(speed * dt)), in place
move(g, dt) ==
    [g EXCEPT !.headPos = advance(@, g.yaw, speedOf(controlsRef), dt)]

\* A fold that moves the head alone.
foldHeadOnly(g, wrapped) ==
    IF wrapped # g.headPos
    THEN [g EXCEPT !.headPos = wrapped, !.folded = TRUE,
                   !.shift = Vec(g.headPos.x - wrapped.x, g.headPos.z - wrapped.z)]
    ELSE g

\* Wrap mode: the head folded to wrapped, and the spine and the camera carried
\* by the same shift.
fold(g, wrapped) ==
    LET shift == Vec(g.headPos.x - wrapped.x, g.headPos.z - wrapped.z)
    IN  IF shift.x # 0 \/ shift.z # 0
        THEN [g EXCEPT !.headPos = wrapped,
                       !.spine   = ShiftSpine(@, shift),
                       !.camera  = [@ EXCEPT !.x = @ - shift.x, !.z = @ - shift.z],
                       !.folded  = TRUE,
                       !.shift   = shift]
        ELSE g

\* setIsGameOver(true); vibrate([60, 40, 80])
die(g) ==
    [g EXCEPT !.pending  = SetValue(@, "isGameOver", TRUE, isGameOver),
              !.vibrated = @ \o vibrate(isHapticsEnabledRef, DeathPattern)]

\* Bounded mode: past a wall the game is over and step returns.
hitWall(g) ==
    IF OutOfBounds(g.headPos) THEN [die(g) EXCEPT !.over = TRUE] ELSE g

\* An arena with walls whatever the setting.
arenaBounded(g) == hitWall(g)

arenaPolicy(g) ==
    IF isWallWrapEnabledRef THEN fold(g, wrapVectorXZ(g.headPos)) ELSE hitWall(g)

\* integrateSpine(headPos, BASE_LENGTH + scoreRef.current * LENGTH_PER_SCORE)
grow(g) ==
    IF g.over THEN g
    ELSE [g EXCEPT !.spine = integrateSpine(@, g.headPos, desiredLengthOf(g.scoreRef))]

\* The pickup: the score updater, a new food position, a pulse.  r1, r2: the
\* rng draws; eager: how React runs the updater.
eat(g, r1, r2, eager) ==
    IF g.over \/ ~FoodHit(isWallWrapEnabledRef, g.headPos, g.foodPos) THEN g
    ELSE [g EXCEPT !.pickup   = TRUE,
                   !.scoreRef = IF eager /\ g.pending = <<>> THEN score + 1 ELSE @,
                   !.pending  = SetScoreInc(@, eager),
                   !.foodPos  = randomFoodPosition(r1, r2),
                   !.vibrated = @ \o vibrate(isHapticsEnabledRef, PickupPattern)]

\* The self-collision loop.
selfCollide(g) ==
    IF g.over \/ ~SelfHit(isWallWrapEnabledRef, g.headPos, g.spine) THEN g
    ELSE [die(g) EXCEPT !.hit = TRUE]

\* step up to and including integrateSpine.
stepMotion(dt) == grow(arenaPolicy(move(turn(StepState, dt), dt)))

\* The whole step, for a frame in which it runs.
step(dt, r1, r2, eager) == selfCollide(eat(stepMotion(dt), r1, r2, eager))

\* ----------------------------------------------------------- renderSnake
Cam(x, y, z) == [x |-> x, y |-> y, z |-> z]

\* The camera carried along when the head's wrap shift changes.
carryCamera(shift) ==
    [cameraPos EXCEPT !.x = @ - (shift.x - headWrapShiftRef.x),
                      !.z = @ - (shift.z - headWrapShiftRef.z)]

\* cameraPos.lerp(desired + height, a)
cameraLerp(cam, desired, height, a) ==
    Cam(cam.x + Quot((desired.x - cam.x) * a, F),
        cam.y + Quot((height - cam.y) * a, F),
        cam.z + Quot((desired.z - cam.z) * a, F))

\* The camera follow, once the desired position is known.
cameraFollow(dt, shift, headPosWrapped, forward, isHeadCam, cam, desired) ==
    [headWrapShift |-> shift,
     cameraPos     |-> cameraLerp(cam, desired,
                                  IF isHeadCam THEN (19 * U) \div 10 ELSE (32 * U) \div 10,
                                  smoothAlpha(dt, IF isHeadCam THEN 32 ELSE 22)),
     headMesh      |-> [x |-> headPosWrapped.x, z |-> headPosWrapped.z,
                        rotation |-> yawRef,
                        scale |-> IF isHeadCam THEN 28 ELSE 100],
     foodMesh      |-> foodPosRef,
     cameraLook    |-> LET look == wrapVectorXZToNearest(
                                       addScaled(headPosWrapped, forward,
                                             IF isHeadCam THEN 8 * U ELSE (38 * U) \div 10),
                                       desired)
                       IN  Cam(look.x, (8 * U) \div 10, look.z)]

cameraAim(dt, shift, headPosWrapped, forward, isHeadCam, cam) ==
    cameraFollow(dt, shift, headPosWrapped, forward, isHeadCam, cam,
                 wrapVectorXZToNearest(
                     addScaled(headPosWrapped, forward,
                           -(IF isHeadCam THEN (22 * U) \div 10 ELSE (68 * U) \div 10)),
                     Vec(cam.x, cam.z)))

renderHead(dt, headPosWrapped) ==
    cameraAim(dt,
              Vec(headPosRef.x - headPosWrapped.x, headPosRef.z - headPosWrapped.z),
              headPosWrapped, forwardFromYaw(yawRef), cameraModeRef = "head",
              carryCamera(Vec(headPosRef.x - headPosWrapped.x,
                              headPosRef.z - headPosWrapped.z)))

renderSnake(dt) == renderHead(dt, wrapVectorXZ(headPosRef))

\* Math.min(Math.floor(desiredLength / SEGMENT_SPACING) + 1, maxInstances)
maxSegments(desiredLength) ==
    Min(JsFloor(desiredLength, SEGMENT_SPACING) + 1, maxInstances)

\* The i-th pass of the loop, i = 1 .. n - 1: the matrix set at index i - 1,
\* as its position and its scale in 1/1000.
bodyInstance(spine, i, n) ==
    [at    |-> wrapVectorXZ(sampleAlongSpine(spine, i * SEGMENT_SPACING)),
     scale |-> 1100 - (350 * i) \div Max(n - 1, 1)]

\* A count that takes the head for a body segment.
bodyCountWithHead(n) == n

\* snakeMesh.count = Math.max(maxSegments - 1, 0)
bodyCount(n) == Max(n - 1, 0)

\* renderSnake, the body: the instances the loop sets, and the count.
renderBody(spine, n) ==
    [count     |-> bodyCount(n),
     instances |-> [i \in 1 .. (n - 1) |-> bodyInstance(spine, i, n)]]

\* ------------------------------------------------------------- resetGame
\* A reset that leaves the pause as it is.
resetGameStaysPaused(r1, r2) ==
    /\ headPosRef' = Origin
    /\ yawRef' = 0
    /\ spineRef' = <<Origin>>
    /\ foodPosRef' = randomFoodPosition(r1, r2)
    /\ headWrapShiftRef' = Origin
    /\ scoreRef' = 0
    /\ pending' = SetValue(SetValue(pending, "score", 0, score),
                           "isGameOver", FALSE, isGameOver)
    /\ vibrated' = vibrate(isHapticsEnabledRef, ResetPattern)

resetGame(r1, r2) ==
    /\ headPosRef' = Origin
    /\ yawRef' = 0
    /\ spineRef' = <<Origin>>
    /\ foodPosRef' = randomFoodPosition(r1, r2)
    /\ headWrapShiftRef' = Origin
    /\ scoreRef' = 0
    /\ pending' = SetValue(SetValue(SetValue(pending, "score", 0, score),
                                    "isPaused", FALSE, isPaused),
                           "isGameOver", FALSE, isGameOver)
    /\ vibrated' = vibrate(isHapticsEnabledRef, ResetPattern)

\* ------------------------------------------------------------------ bounds
MaxFrames == 2
MaxInputs == 2
MaxTimeouts == 1

\* An event a handler takes, between frames: k is e.key for a keyboard event,
\* spawned the number of setTimeout calls the handler makes.
Event(name, k, spawned) ==
    /\ pc = "idle"
    /\ mounted
    /\ inputs' = inputs + 1
    /\ handler' = name
    /\ key' = k
    /\ timeouts' = timeouts + spawned
    /\ UNCHANGED <<pc, frameDt, frames, peak, mounted, rafRequested, listening,
                   probe>>

\* An input event of a JSX handler that sets no timer.
Input(name) == Event(name, "", 0)

\* A keyboard event, while the listeners of the scene effect are on window.
KeyEvent(name, k) == listening /\ Event(name, k, 0)

\* -------------------------------------------------------------- the frame
\* A frame delta that is the raw gap.
frameDeltaRaw(gap) == gap

\* const dt = Math.min((timeMs - lastTimeMs) / 1000, 0.2)
frameDelta(gap) == Min(gap, MAX_DT)

\* animate, up to the end of step.  gap: timeMs - lastTimeMs, in 1/T s;
\* draws: the pairs of rng draws a respawn may make.
AnimateStep(gaps, draws, cap) ==
    /\ pc = "idle"
    /\ rafRequested
    /\ frames < cap
    /\ \E gap \in gaps : \E dt \in {frameDelta(gap)} :
         /\ frameDt' = dt
         /\ IF StepRuns
            THEN \E p \in {step(dt, 0, 0, FALSE).pickup} :
                 \E r \in (IF p THEN draws ELSE {<<0, 0>>}),
                    eager \in (IF p /\ pending = <<>> THEN BOOLEAN ELSE {FALSE}) :
                 \E s \in {step(dt, r[1], r[2], eager)} :
                   /\ yawRef' = s.yaw
                   /\ headPosRef' = s.headPos
                   /\ spineRef' = s.spine
                   /\ cameraPos' = s.camera
                   /\ foodPosRef' = s.foodPos
                   /\ scoreRef' = s.scoreRef
                   /\ pending' = s.pending
                   /\ vibrated' = s.vibrated
                   /\ peak' = Max(peak, Reduce(s.pending, "score", score))
            ELSE /\ UNCHANGED <<yawRef, headPosRef, spineRef, cameraPos,
                                foodPosRef, scoreRef, pending, peak>>
                 /\ vibrated' = <<>>
    /\ pc' = "render"
    /\ handler' = "animate"
    /\ key' = ""
    /\ frames' = frames + 1
    /\ UNCHANGED <<uiVars, refVars, ctlVars, headWrapShiftRef, headMesh, foodMesh,
                   cameraLook, wallsVisible, snakeMesh, inputs, lifeVars, probe>>

\* animate, from renderSnake to renderer.render.
AnimateRender ==
    /\ pc = "render"
    /\ \E r \in {renderSnake(frameDt)} :
         /\ headWrapShiftRef' = r.headWrapShift
         /\ cameraPos' = r.cameraPos
         /\ headMesh' = r.headMesh
         /\ foodMesh' = r.foodMesh
         /\ cameraLook' = r.cameraLook
    /\ snakeMesh' = renderBody(spineRef, maxSegments(desiredLengthOf(scoreRef)))
    /\ wallsVisible' = ~isWallWrapEnabledRef
    /\ pc' = "idle"
    /\ UNCHANGED <<uiVars, pending, refVars, ctlVars, scoreRef, headPosRef, yawRef,
                   spineRef, foodPosRef, frameDt, vibrated, handler, frames, inputs,
                   key, peak, lifeVars, probe>>

\* ------------------------------------------------------- render and effects
\* useEffect(() => { ref.current = state }, [state]): the ref after a render
\* that took state from old to new.
Effect(ref, old, new) == IF new # old THEN new ELSE ref

\* A score effect that copies every score to the best score.
scoreEffectCopies(score1, best1, ran) ==
    IF ran /\ score1 # best1 THEN <<Update("bestScore", "set", score1)>> ELSE <<>>

\* The updates the score effect queues, when it ran after a render with
\* score1 and best1: if (score > bestScore) setBestScore(score).
scoreEffect(score1, best1, ran) ==
    IF ran /\ score1 > best1 THEN <<Update("bestScore", "set", score1)>> ELSE <<>>

\* React renders the pending updates and runs the effects whose dependencies
\* changed.
Commit ==
    /\ pc = "idle"
    /\ mounted
    /\ pending # <<>>
    /\ LET score1 == Reduce(pending, "score", score)
           best1  == Reduce(pending, "bestScore", bestScore)
           ran    == score1 # score \/ best1 # bestScore
       IN  /\ score' = score1
           /\ bestScore' = best1
           /\ scoreRef' = IF ran THEN score1
                          ELSE ReduceScoreRef(pending, score, scoreRef)
           /\ pending' = scoreEffect(score1, best1, ran)
    /\ isPaused' = Reduce(pending, "isPaused", isPaused)
    /\ isGameOver' = Reduce(pending, "isGameOver", isGameOver)
    /\ cameraMode' = Reduce(pending, "cameraMode", cameraMode)
    /\ isWallWrapEnabled' = Reduce(pending, "isWallWrapEnabled", isWallWrapEnabled)
    /\ steerSensitivity' = Reduce(pending, "steerSensitivity", steerSensitivity)
    /\ isHapticsEnabled' = Reduce(pending, "isHapticsEnabled", isHapticsEnabled)
    /\ cameraModeRef' = Effect(cameraModeRef, cameraMode, cameraMode')
    /\ isPausedRef' = Effect(isPausedRef, isPaused, isPaused')
    /\ isGameOverRef' = Effect(isGameOverRef, isGameOver, isGameOver')
    /\ steerSensitivityRef' = Effect(steerSensitivityRef, steerSensitivity, steerSensitivity')
    /\ isHapticsEnabledRef' = Effect(isHapticsEnabledRef, isHapticsEnabled, isHapticsEnabled')
    /\ isWallWrapEnabledRef' = Effect(isWallWrapEnabledRef, isWallWrapEnabled, isWallWrapEnabled')
    /\ vibrated' = <<>>
    /\ handler' = "commit"
    /\ key' = ""
    /\ UNCHANGED <<headPosRef, yawRef, spineRef, foodPosRef, headWrapShiftRef,
                   ctlVars, viewVars, pc, frameDt, frames, inputs, peak, lifeVars,
                   probe>>

\* ---------------------------------------------------------------- handlers
Keys == {" ", "c", "r", "a", "d", "w", "s"}

\* setKey(key, isDown)
setKey(c, k, isDown) ==
    [c EXCEPT !.keySteerLeft  = IF k = "a" THEN isDown ELSE @,
              !.keySteerRight = IF k = "d" THEN isDown ELSE @,
              !.keyFaster     = IF k = "w" THEN isDown ELSE @,
              !.keySlower     = IF k = "s" THEN isDown ELSE @]

\* A pause toggle that also resumes a finished game.
TogglePauseResumes ==
    /\ pending' = Append(Append(pending, Update("isPaused", "toggle", FALSE)),
                         Update("isGameOver", "set", FALSE))
    /\ vibrated' = vibrate(isHapticsEnabledRef, TapPattern)
    /\ UNCHANGED <<uiVars, refVars, gameVars, ctlVars, viewVars>>

\* A pause key that only pauses.
TogglePauseOnly ==
    /\ pending' = Append(pending, Update("isPaused", "set", TRUE))
    /\ vibrated' = vibrate(isHapticsEnabledRef, TapPattern)
    /\ UNCHANGED <<uiVars, refVars, gameVars, ctlVars, viewVars>>

\* Space: setIsPaused((p) => !p); vibrate(8)
TogglePause ==
    /\ pending' = Append(pending, Update("isPaused", "toggle", FALSE))
    /\ vibrated' = vibrate(isHapticsEnabledRef, TapPattern)
    /\ UNCHANGED <<uiVars, refVars, gameVars, ctlVars, viewVars>>

\* C: setCameraMode((m) => (m === 'head' ? 'chase' : 'head')); vibrate(8)
ToggleCamera ==
    /\ pending' = Append(pending, Update("cameraMode", "toggle", FALSE))
    /\ vibrated' = vibrate(isHapticsEnabledRef, TapPattern)
    /\ UNCHANGED <<uiVars, refVars, gameVars, ctlVars, viewVars>>

\* A handler that calls resetGame.
Restart(draws) ==
    /\ \E r \in draws : resetGame(r[1], r[2])
    /\ UNCHANGED <<uiVars, refVars, ctlVars, viewVars>>

Nothing ==
    /\ vibrated' = <<>>
    /\ UNCHANGED <<uiVars, pending, refVars, gameVars, ctlVars, viewVars>>

\* An R key that restarts in any state.
RestartKeyAlways == TRUE

\* R restarts when the refs say paused or game over.
RestartKeyEnabled == isGameOverRef \/ isPausedRef

onKeyDown(keys, draws) ==
    \E k \in keys :
      /\ KeyEvent("onKeyDown", k)
      /\ CASE k = " " -> TogglePause
           [] k = "c" -> ToggleCamera
           [] k = "r" -> IF RestartKeyEnabled THEN Restart(draws) ELSE Nothing
           [] OTHER   -> /\ controlsRef' = setKey(controlsRef, k, TRUE)
                         /\ vibrated' = <<>>
                         /\ UNCHANGED <<uiVars, pending, refVars, gameVars,
                                        joystickActiveRef, viewVars>>

onKeyUp(keys) ==
    \E k \in keys :
      /\ KeyEvent("onKeyUp", k)
      /\ controlsRef' = setKey(controlsRef, k, FALSE)
      /\ vibrated' = <<>>
      /\ UNCHANGED <<uiVars, pending, refVars, gameVars, joystickActiveRef, viewVars>>

\* The joystick: pointer down captures it, a move sets the two touch axes
\* (the curve's output, clamped), up or cancel zeroes them.
onPointerDown ==
    /\ Input("onPointerDown")
    /\ ~joystickActiveRef
    /\ joystickActiveRef' = TRUE
    /\ vibrated' = <<>>
    /\ UNCHANGED <<uiVars, pending, refVars, gameVars, controlsRef, viewVars>>

onPointerMove(axes) ==
    \E sx, sy \in axes :
      /\ Input("onPointerMove")
      /\ joystickActiveRef
      /\ controlsRef' = [controlsRef EXCEPT !.touchSteerAxis = clamp(sx, -AX, AX),
                                            !.touchSpeedAxis = clamp(sy, -AX, AX)]
      /\ vibrated' = <<>>
      /\ UNCHANGED <<uiVars, pending, refVars, gameVars, joystickActiveRef, viewVars>>

onPointerUp ==
    /\ Input("onPointerUp")
    /\ joystickActiveRef
    /\ joystickActiveRef' = FALSE
    /\ controlsRef' = [controlsRef EXCEPT !.touchSteerAxis = 0, !.touchSpeedAxis = 0]
    /\ vibrated' = <<>>
    /\ UNCHANGED <<uiVars, pending, refVars, gameVars, viewVars>>

\* The touch buttons.  Restart is rendered only while the overlay is open.
isOverlayOpen == isPaused \/ isGameOver

TouchPause == Input("TouchPause") /\ TogglePause

TouchCam == Input("TouchCam") /\ ToggleCamera

TouchRestart(draws) ==
    /\ Input("TouchRestart")
    /\ isOverlayOpen
    /\ Restart(draws)

\* The overlay's button: Restart when game over, else Resume.
OverlayButton(draws) ==
    /\ Input("OverlayButton")
    /\ isOverlayOpen
    /\ IF isGameOver
       THEN Restart(draws)
       ELSE /\ pending' = SetValue(pending, "isPaused", FALSE, isPaused)
            /\ vibrated' = <<>>
            /\ UNCHANGED <<uiVars, refVars, gameVars, ctlVars, viewVars>>

\* The settings dialog (taken as open): the checkbox sends the opposite of the
\* rendered value.
WrapCheckbox ==
    /\ Input("WrapCheckbox")
    /\ pending' = SetValue(pending, "isWallWrapEnabled", ~isWallWrapEnabled,
                           isWallWrapEnabled)
    /\ vibrated' = vibrate(isHapticsEnabledRef, TapPattern)
    /\ UNCHANGED <<uiVars, refVars, gameVars, ctlVars, viewVars>>

SensitivitySlider(values) ==
    \E v \in values :
      /\ Input("SensitivitySlider")
      /\ pending' = SetValue(pending, "steerSensitivity", v, steerSensitivity)
      /\ vibrated' = <<>>
      /\ UNCHANGED <<uiVars, refVars, gameVars, ctlVars, viewVars>>

\* The Haptics checkbox: setIsHapticsEnabled(e.target.checked), and when it
\* is being ticked setTimeout(() => vibrate(10), 0).
HapticsCheckbox ==
    /\ timeouts < MaxTimeouts
    /\ Event("HapticsCheckbox", "", IF ~isHapticsEnabled THEN 1 ELSE 0)
    /\ pending' = SetValue(pending, "isHapticsEnabled", ~isHapticsEnabled,
                           isHapticsEnabled)
    /\ vibrated' = <<>>
    /\ UNCHANGED <<uiVars, refVars, gameVars, ctlVars, viewVars>>

\* A callback handed to setTimeout runs: vibrate(10).  Nothing cancels it.
TimerFire ==
    /\ pc = "idle"
    /\ timeouts > 0
    /\ timeouts' = timeouts - 1
    /\ vibrated' = vibrate(isHapticsEnabledRef, ResetPattern)
    /\ handler' = "timeout"
    /\ key' = ""
    /\ UNCHANGED <<uiVars, pending, refVars, gameVars, ctlVars, viewVars,
                   pc, frameDt, frames, inputs, peak, mounted, rafRequested, listening,
                   probe>>

\* The component is removed: the cleanup of the scene effect cancels the
\* requested frame and removes the key listeners; React drops the tree and
\* renders no more.
Teardown ==
    /\ pc = "idle"
    /\ mounted
    /\ mounted' = FALSE
    /\ rafRequested' = FALSE
    /\ listening' = FALSE
    /\ vibrated' = <<>>
    /\ handler' = "teardown"
    /\ key' = ""
    /\ UNCHANGED <<uiVars, pending, refVars, gameVars, ctlVars, viewVars,
                   pc, frameDt, frames, inputs, peak, timeouts, probe>>

\* No utility has been called on its own.
NoCall == [fn |-> "", args |-> <<>>, results |-> <<>>]

\* ------------------------------------------------------------------- Init
\* The state once the component has mounted: the useState initializers (the
\* persisted settings are whatever localStorage held), the refs, the first
\* run of the effects, and the resetGame() of the scene effect.
Mounted(wraps, bests, senses, haptics, draws) ==
    /\ score = 0
    /\ bestScore \in bests
    /\ isPaused = FALSE
    /\ isGameOver = FALSE
    /\ cameraMode = "chase"
    /\ isWallWrapEnabled \in wraps
    /\ steerSensitivity \in senses
    /\ isHapticsEnabled \in haptics
    /\ pending = IF score > bestScore THEN <<Update("bestScore", "set", score)>> ELSE <<>>
    /\ scoreRef = 0
    /\ cameraModeRef = cameraMode
    /\ steerSensitivityRef = steerSensitivity
    /\ isHapticsEnabledRef = isHapticsEnabled
    /\ isWallWrapEnabledRef = isWallWrapEnabled
    /\ isPausedRef = isPaused
    /\ isGameOverRef = isGameOver
    /\ headPosRef = Origin
    /\ yawRef = 0
    /\ spineRef = <<Origin>>
    /\ \E r \in draws : foodPosRef = randomFoodPosition(r[1], r[2])
    /\ headWrapShiftRef = Origin
    /\ controlsRef = [keySteerLeft |-> FALSE, keySteerRight |-> FALSE,
                      keyFaster |-> FALSE, keySlower |-> FALSE,
                      touchSteerAxis |-> 0, touchSpeedAxis |-> 0]
    /\ joystickActiveRef = FALSE
    /\ cameraPos = Cam(0, 7 * U, 10 * U)
    /\ headMesh = [x |-> 0, z |-> 0, rotation |-> 0, scale |-> 100]
    /\ snakeMesh = [count |-> maxInstances, instances |-> <<>>]
    /\ foodMesh = Origin
    /\ cameraLook = Cam(0, 0, 0)
    /\ wallsVisible = TRUE
    /\ pc = "idle"
    /\ frameDt = 0
    /\ vibrated = vibrate(isHapticsEnabled, ResetPattern)
    /\ handler = "mount"
    /\ frames = 0
    /\ inputs = 0
    /\ key = ""
    /\ peak = Max(bestScore, score)
    /\ mounted = TRUE
    /\ rafRequested = TRUE
    /\ listening = TRUE
    /\ timeouts = 0
    /\ probe = NoCall

\* ---------------------------------------------- the general specification
\* Every handler, a few frames and inputs deep.  Frame gaps of 20 ms and of
\* 1 s; pairs of rng draws that put the food in the corner of its range, at
\* the origin or between; touch axes at full and at half deflection.
Gaps  == {T \div 50, T}
Draws == {0, RngDen \div 2} \X {0, RngDen \div 2}
Axes  == {-AX, 1}
Sensitivities == {SU, (18 * SU) \div 10}

Init == Mounted(BOOLEAN, {0}, {SU}, {TRUE}, Draws)

UserInput ==
    \/ onKeyDown(Keys, Draws)
    \/ onKeyUp({"a", "d", "w", "s"})
    \/ onPointerDown
    \/ onPointerMove(Axes)
    \/ onPointerUp
    \/ TouchPause
    \/ TouchCam
    \/ TouchRestart(Draws)
    \/ OverlayButton(Draws)
    \/ WrapCheckbox
    \/ SensitivitySlider(Sensitivities)

Next ==
    \/ AnimateStep(Gaps, Draws, MaxFrames)
    \/ AnimateRender
    \/ Commit
    \/ (inputs < MaxInputs /\ UserInput)

Spec == Init /\ [][Next]_vars

\* ------------------------------------------------- the long, steady run
\* A display with a steady frame rate (every gap 0.2 s, or every gap 4.5 ms)
\* and a player who leaves the controls alone for the first QuietFrames
\* frames: the snake runs straight from the origin, to the wall or the arena
\* edge at 1.6 units a frame, or 0.036 units a frame with its own spine
\* piling up behind the head.  The food is on the snake's path, half way to
\* the wall.
MaxRunFrames == 21
MaxRunInputs == 2
QuietFrames  == 17
FineGap      == (45 * T) \div (10 * U)
RunGaps      == {FineGap, T \div 5}
RunDraws     == {<<RngDen \div 2, RngDen \div 4>>}
RunSensitivities == {(18 * SU) \div 10}

InitRun == Mounted(BOOLEAN, {0}, {SU}, {TRUE}, RunDraws)

SteadyFrame ==
    \E gap \in RunGaps :
      /\ frames = 0 \/ frameDt = frameDelta(gap)
      /\ AnimateStep({gap}, RunDraws, MaxRunFrames)

RunInput ==
    \/ onKeyDown({" ", "c", "r", "a"}, RunDraws)
    \/ TouchRestart(RunDraws)
    \/ OverlayButton(RunDraws)
    \/ WrapCheckbox
    \/ SensitivitySlider(RunSensitivities)

NextRun ==
    \/ SteadyFrame
    \/ AnimateRender
    \/ Commit
    \/ (frames >= QuietFrames /\ inputs < MaxRunInputs /\ RunInput)

SpecRun == InitRun /\ [][NextRun]_vars

\* ------------------------------------------------ the life of the component
\* From the mount to the teardown, with the settings dialog open: a few frames
\* of 20 ms with the food on the head (each step a pickup) or out of reach,
\* a persisted best score of 0 or 2, haptics persisted off, the pause,
\* the restart, the Haptics checkbox and its timer, and the teardown at any
\* point between two frames.
MaxLifeFrames == 3
MaxLifeInputs == 2
LifeGaps  == {T \div 50}
LifeDraws == {<<RngDen \div 2, RngDen \div 2>>, <<0, 0>>}
LifeBests == {0, 2}

InitLife == Mounted({TRUE}, LifeBests, {SU}, {FALSE}, LifeDraws)

LifeInput ==
    \/ onKeyDown({" ", "r"}, LifeDraws)
    \/ OverlayButton(LifeDraws)
    \/ HapticsCheckbox

NextLife ==
    \/ AnimateStep(LifeGaps, LifeDraws, MaxLifeFrames)
    \/ AnimateRender
    \/ Commit
    \/ (inputs < MaxLifeInputs /\ LifeInput)
    \/ TimerFire
    \/ Teardown

SpecLife == InitLife /\ [][NextLife]_vars

\* ------------------------------------------------------------ the controls
\* The keys and the joystick together, in wrap mode with the food out of
\* reach: before the first frame up to MaxSteerInputs key presses, joystick
\* moves to full or half deflection and sensitivity changes, which the
\* player then holds through one or two frames of 20 ms or of a second.
MaxSteerFrames == 2
MaxSteerInputs == 5
SteerDraws == {<<0, 0>>}
SteerAxes  == {-AX, 1, AX}

InitSteer == Mounted({TRUE}, {0}, {SU}, {TRUE}, SteerDraws)

SteerInput ==
    \/ onKeyDown({"a", "d", "w", "s"}, SteerDraws)
    \/ onPointerDown
    \/ onPointerMove(SteerAxes)
    \/ onPointerUp
    \/ SensitivitySlider(Sensitivities)

NextSteer ==
    \/ AnimateStep(Gaps, SteerDraws, MaxSteerFrames)
    \/ AnimateRender
    \/ Commit
    \/ (frames = 0 /\ inputs < MaxSteerInputs /\ SteerInput)

SpecSteer == InitSteer /\ [][NextSteer]_vars

\* ------------------------------------------------ the math utilities alone
\* The utilities at the top of the file are functions of their arguments
\* alone: each is called on arguments from bounded sets, and probe holds the
\* call and what it returned, one call in each behaviour.  The game stays as
\* mounted.
\* Coordinates at and next to the middle and the walls of the arena, and
\* between; each also up to MaxTurns arenas away.
MaxTurns == 2
Turns == (-MaxTurns) .. MaxTurns
Marks == {-HALF_ARENA - 1, -HALF_ARENA, -HALF_ARENA + 1, -(17 * U + 500), -1, 0, 1,
          12 * U + 345, HALF_ARENA - 1, HALF_ARENA, HALF_ARENA + 1}
Coords == {c + j * ARENA_SIZE : c \in Marks, j \in Turns}

Call(fn, args, results) ==
    /\ probe' = [fn |-> fn, args |-> args, results |-> results]
    /\ UNCHANGED <<uiVars, pending, refVars, gameVars, ctlVars, viewVars, pc, frameDt,
                   vibrated, handler, frames, inputs, key, peak, lifeVars>>

\* wrapCoord(v) and wrapCoord(v + k * ARENA_SIZE)
CallWrapCoord ==
    /\ probe = NoCall
    /\ \E v \in Coords, k \in Turns :
           Call("wrapCoord", <<v, k>>, <<wrapCoord(v), wrapCoord(v + k * ARENA_SIZE)>>)

\* wrapDelta(d)
CallWrapDelta ==
    /\ probe = NoCall
    /\ \E d \in Coords : Call("wrapDelta", <<d>>, <<wrapDelta(d)>>)

\* torusDistanceXZ(a, b) and the Euclidean a.distanceTo(b), for a in and next
\* to the arena and b up to MaxTurns arenas away.
Spots == {c + j * ARENA_SIZE : c \in {-HALF_ARENA, -1, 12 * U + 345}, j \in Turns}
CallTorusDistance ==
    /\ probe = NoCall
    /\ \E ax \in Marks, az \in Marks, bx \in Spots, bz \in Spots :
           Call("torusDistanceXZ", <<Vec(ax, az), Vec(bx, bz)>>,
                <<torusDistanceXZ(Vec(ax, az), Vec(bx, bz)),
                  distanceTo(Vec(ax, az), Vec(bx, bz))>>)

InitUtil == Mounted({TRUE}, {0}, {SU}, {TRUE}, {<<0, 0>>})

NextUtil ==
    \/ CallWrapCoord
    \/ CallWrapDelta
    \/ CallTorusDistance

SpecUtil == InitUtil /\ [][NextUtil]_vars

\* ================================================================== claims
\* A frame's step: AnimateStep has just run.
FrameStep == pc = "idle" /\ pc' = "render"

\* C1: in every frame in which the game is paused or over, the step leaves
\* the head position, the yaw, the spine, the food position and the score
\* (the ref, the state and the updates queued for it) as they were.
C1_FrozenStep ==
    [][(FrameStep /\ (isPaused \/ isGameOver))
         => UNCHANGED <<headPosRef, yawRef, spineRef, foodPosRef, scoreRef, score, pending>>]_vars

\* A frame has stepped with the game over, the head where it died.
C1_Witness ==
    /\ pc = "render"
    /\ isGameOver
    /\ headPosRef # Origin

\* The updates of pending that set isGameOver to v.
GameOverSets(q, v) == {i \in 1 .. Len(q) : q[i] = Update("isGameOver", "set", v)}
DeathQueued(q) == GameOverSets(q, TRUE) # {}
ResetQueued(q) == GameOverSets(q, FALSE) # {}

\* A step has signalled a death: one more setIsGameOver(true) is queued.
DeathSignalled ==
    Cardinality(GameOverSets(pending', TRUE)) > Cardinality(GameOverSets(pending, TRUE))

\* resetGame has run: the head, the yaw, the spine and the score are as at
\* the start, in a handler that restarts.
ResetDone ==
    /\ handler' \in {"onKeyDown", "TouchRestart", "OverlayButton"}
    /\ headPosRef' = Origin
    /\ yawRef' = 0
    /\ spineRef' = <<Origin>>
    /\ headWrapShiftRef' = Origin
    /\ scoreRef' = 0

\* Some spine point of index k or more is within 0.72 of the head.
CloseFrom(k, wrap, headPos, spine) ==
    \E i \in k .. (Len(spine) - 1) : gameDistance(wrap, headPos, spine[i + 1]) < HIT_RADIUS

\* C2: with wrap disabled, the step that finds the head past a wall queues
\* isGameOver = true, and no later step moves the head (until a reset puts it
\* back at the origin), whenever React renders the flag.
C2_DeadHeadStays ==
    [][/\ (FrameStep /\ StepRuns /\ ~isWallWrapEnabledRef /\ OutOfBounds(headPosRef'))
            => DeathQueued(pending')
       /\ (FrameStep /\ ~isWallWrapEnabledRef /\ OutOfBounds(headPosRef))
            => headPosRef' = headPosRef]_vars

\* C3: isGameOver goes from true to false only when React renders a queued
\* setIsGameOver(false), and only resetGame queues one: no frame, pause
\* toggle, resume click, camera toggle or settings change does.
C3_GameOverUntilReset ==
    [][/\ (isGameOver /\ ~isGameOver') => (handler' = "commit" /\ ResetQueued(pending))
       /\ (Cardinality(GameOverSets(pending', FALSE)) > Cardinality(GameOverSets(pending, FALSE)))
            => ResetDone]_vars

\* The game is over, and since then the player has paused and React has
\* rendered it.
C3_Witness ==
    /\ isGameOver
    /\ isPaused
    /\ handler = "commit"
    /\ inputs > 0
    /\ headPosRef # Origin

\* C4: isGameOver becomes true only when React renders a death some step
\* signalled, and a step signals one only when it runs and finds the head
\* past a wall with wrap disabled, or on the body; in wrap mode crossing an
\* edge signals nothing.
C4_OnlyDeaths ==
    [][/\ (~isGameOver /\ isGameOver') => (handler' = "commit" /\ DeathQueued(pending))
       /\ DeathSignalled =>
            /\ FrameStep
            /\ StepRuns
            /\ \/ ~isWallWrapEnabledRef /\ OutOfBounds(headPosRef')
               \/ CloseFrom(NECK_SAMPLES, isWallWrapEnabledRef, headPosRef', spineRef')]_vars

\* The game is over at the wall.
C4_Witness ==
    /\ isGameOver
    /\ handler = "commit"
    /\ ~isWallWrapEnabledRef
    /\ OutOfBounds(headPosRef)

\* C5, as stated: a step that runs (and does not stop at a wall) signals a
\* death exactly when a spine point of index 19 or more is within 0.72 of
\* the head.
C5_BeyondIndex18 ==
    [][(FrameStep /\ StepRuns /\ ~(~isWallWrapEnabledRef /\ OutOfBounds(headPosRef')))
         => (DeathSignalled
               <=> CloseFrom(NECK_SAMPLES + 1, isWallWrapEnabledRef, headPosRef', spineRef'))]_vars

\* C5, amended: a step that runs (and does not stop at a wall) signals a
\* death exactly when a spine point of index 18 or more is within 0.72 of
\* the head; a close point of index below 18 signals nothing.
C5_FromIndex18 ==
    [][(FrameStep /\ StepRuns /\ ~(~isWallWrapEnabledRef /\ OutOfBounds(headPosRef')))
         => (DeathSignalled
               <=> CloseFrom(NECK_SAMPLES, isWallWrapEnabledRef, headPosRef', spineRef'))]_vars

\* A step has signalled a death with the spine 19 points long: the only
\* point tested, index 18, is within 0.72 of the head.
C5_Witness ==
    /\ pc = "render"
    /\ Len(spineRef) = NECK_SAMPLES + 1
    /\ DeathQueued(pending)
    /\ distanceTo(headPosRef, spineRef[NECK_SAMPLES + 1]) < HIT_RADIUS
    /\ distanceTo(headPosRef, spineRef[NECK_SAMPLES]) < HIT_RADIUS

\* The score React will render: the state with the queued updates applied.
QueuedScore(q, s) == Reduce(q, "score", s)

\* The margin inset of the food.
FoodInRange(p) ==
    /\ -HALF_ARENA + FOOD_MARGIN <= p.x /\ p.x <= HALF_ARENA - FOOD_MARGIN
    /\ -HALF_ARENA + FOOD_MARGIN <= p.z /\ p.z <= HALF_ARENA - FOOD_MARGIN

\* A step that runs has brought the head within reach of the food.
Pickup ==
    /\ FrameStep
    /\ StepRuns
    /\ ~(~isWallWrapEnabledRef /\ OutOfBounds(headPosRef'))
    /\ FoodHit(isWallWrapEnabledRef, headPosRef', foodPosRef)

\* C6: the score changes only by a pickup, which adds exactly 1 and draws a
\* new food position in the same step, and by a reset, which makes it 0; the
\* rendered score changes only to the queued one; and scoreRef, hence the
\* desired length, decreases only by a reset.
C6_ScoreSteps ==
    [][/\ QueuedScore(pending', score') # QueuedScore(pending, score)
            => \/ Pickup /\ QueuedScore(pending', score') = QueuedScore(pending, score) + 1
               \/ ResetDone /\ QueuedScore(pending', score') = 0
       /\ Pickup => /\ QueuedScore(pending', score') = QueuedScore(pending, score) + 1
                    /\ FoodInRange(foodPosRef')
       /\ score' # score => (handler' = "commit" /\ score' = QueuedScore(pending, score))
       /\ (scoreRef' < scoreRef \/ desiredLengthOf(scoreRef') < desiredLengthOf(scoreRef))
            => ResetDone]_vars

\* After a pickup React has rendered, the game was paused and a handler has
\* reset it: the rendered score is still the old one, scoreRef is 0.
C6_Witness ==
    /\ score > 0
    /\ scoreRef = 0
    /\ QueuedScore(pending, score) = 0
    /\ handler \in {"onKeyDown", "TouchRestart", "OverlayButton"}

\* C7: the food position is always within the margin inset:
\* x and z in [-HALF_ARENA + 1.6, HALF_ARENA - 1.6].
C7_FoodInset == FoodInRange(foodPosRef)

\* The food has been eaten and respawned at the very corner of its range.
C7_Witness ==
    /\ scoreRef > 0
    /\ foodPosRef = Vec(-HALF_ARENA + FOOD_MARGIN, -HALF_ARENA + FOOD_MARGIN)

\* The canonical range of a coordinate pair.
InRange(p) ==
    /\ -HALF_ARENA <= p.x /\ p.x < HALF_ARENA
    /\ -HALF_ARENA <= p.z /\ p.z < HALF_ARENA

\* C8: whenever wrap mode is active, the head position has x and z in
\* [-ARENA_SIZE/2, ARENA_SIZE/2).
C8_WrapHeadInRange == isWallWrapEnabledRef => InRange(headPosRef)

\* C9: in a wrap-mode step the head ends in the canonical range, and when it
\* was folded the spine and the camera are those of the same step without
\* the fold, translated by the shift of the head.
C9_FoldCarries ==
    [][(FrameStep /\ StepRuns /\ isWallWrapEnabledRef) =>
         \E u \in {move(turn(StepState, frameDt'), frameDt')} :
         \E shift \in {Vec(u.headPos.x - headPosRef'.x, u.headPos.z - headPosRef'.z)} :
           /\ InRange(headPosRef')
           /\ headPosRef' = wrapVectorXZ(u.headPos)
           /\ spineRef' = ShiftSpine(grow(u).spine, shift)
           /\ cameraPos' = Cam(cameraPos.x - shift.x, cameraPos.y, cameraPos.z - shift.z)]_vars

\* A step has just folded the head from beyond the far edge to the near one,
\* with a spine of several points behind it.
C9_Witness ==
    /\ pc = "render"
    /\ isWallWrapEnabledRef
    /\ headPosRef.z > HALF_ARENA - 2 * U
    /\ Len(spineRef) > 3
    /\ spineRef[2].z > HALF_ARENA

\* C10: the arc length of the spine never exceeds the desired length.
C10_ArcWithinDesired == ArcLength(spineRef) <= desiredLengthOf(scoreRef)

\* The spine has been cut to exactly the desired length after a pickup.
C10_Witness ==
    /\ scoreRef > 0
    /\ Len(spineRef) > 3
    /\ ArcLength(spineRef) = desiredLengthOf(scoreRef)

\* A step that runs and does not stop at a wall: it reaches integrateSpine.
StepIntegrates ==
    /\ FrameStep
    /\ StepRuns
    /\ ~(~isWallWrapEnabledRef /\ OutOfBounds(headPosRef'))

\* A step has folded the head to the other side of the arena.
StepFolds == StepIntegrates /\ stepMotion(frameDt').folded

\* The spine as integrateSpine has it before the trim: the spine the fold
\* left, with the head pushed.
PushedSpine(g) == PushHead(g.spine, g.headPos)

\* C11, as stated: every step that reaches integrateSpine and folds nothing
\* leaves the arc length of the spine at least the desired length, and
\* every step that reaches it leaves the arc length exactly the desired
\* length.
C11_ArcAtLeastDesired ==
    [][/\ (StepIntegrates /\ ~StepFolds)
            => ArcLength(spineRef') >= desiredLengthOf(scoreRef)
       /\ StepIntegrates => ArcLength(spineRef') = desiredLengthOf(scoreRef)]_vars

\* The cut point is rounded towards the point before it, and the length of
\* the cut segment rounded down: together less than 3/U.
CutRounding == 2

\* C11, amended: a step that reaches integrateSpine leaves the spine as
\* pushed, shorter than the desired length or equal to it, when the pushed
\* spine is no longer than the desired length; otherwise it leaves the front
\* points of the pushed spine and a cut point, with an arc length of the
\* desired length, to the rounding of the cut point and never above it.
C11_ArcTrimmedToDesired ==
    [][StepIntegrates =>
         \E pushed \in {PushedSpine(arenaPolicy(move(turn(StepState, frameDt'), frameDt')))} :
           IF ArcLength(pushed) <= desiredLengthOf(scoreRef)
           THEN spineRef' = pushed
           ELSE /\ ArcLength(spineRef') <= desiredLengthOf(scoreRef)
                /\ ArcLength(spineRef') >= desiredLengthOf(scoreRef) - CutRounding
                /\ Len(spineRef') >= 2
                /\ Len(spineRef') <= Len(pushed)
                /\ SubSeq(spineRef', 1, Len(spineRef') - 1)
                      = SubSeq(pushed, 1, Len(spineRef') - 1)]_vars

\* A step has just cut the tail of a snake that has eaten nothing: the spine
\* is the desired length, the tail point off the 1.6 grid of the head.
C11_Witness ==
    /\ pc = "render"
    /\ scoreRef = 0
    /\ ~DeathQueued(pending)
    /\ Len(spineRef) = 5
    /\ ArcLength(spineRef) = BASE_LENGTH
    /\ distanceTo(spineRef[4], spineRef[5]) < distanceTo(spineRef[3], spineRef[4])

\* A handler calls resetGame: the touch Restart button, the overlay's button
\* when it reads Restart, the R key when it is enabled.
ResetCalled ==
    \/ handler' = "TouchRestart"
    \/ handler' = "OverlayButton" /\ isGameOver
    \/ handler' = "onKeyDown" /\ key' = "r" /\ RestartKeyEnabled

\* The flags React will render: the state with the queued updates applied.
QueuedPaused(q, p) == Reduce(q, "isPaused", p)
QueuedGameOver(q, g) == Reduce(q, "isGameOver", g)

\* The game as a reset leaves it: the head at the origin with yaw 0, the spine
\* the head point alone, the score 0, the food in its range, and not paused
\* and not over once React renders.
FreshGame ==
    /\ headPosRef = Origin
    /\ yawRef = 0
    /\ spineRef = <<headPosRef>>
    /\ scoreRef = 0
    /\ QueuedScore(pending, score) = 0
    /\ FoodInRange(foodPosRef)
    /\ ~QueuedPaused(pending, isPaused)
    /\ ~QueuedGameOver(pending, isGameOver)

\* C12: a reset, whatever the lifecycle state it is called in, leaves a
\* fresh game; React's next render shows it (score 0, not paused, not over,
\* in the state and in the refs); and a reset of a game a handler has just
\* reset leaves the same game, but for the food.
C12_ResetFresh ==
    [][/\ ResetCalled => FreshGame'
       /\ (FreshGame /\ handler \in {"onKeyDown", "TouchRestart", "OverlayButton"}
              /\ handler' = "commit")
            => /\ FreshGame'
               /\ score' = 0 /\ ~isPaused' /\ ~isGameOver'
               /\ ~isPausedRef' /\ ~isGameOverRef'
       /\ (ResetCalled /\ FreshGame /\ handler \in {"onKeyDown", "TouchRestart", "OverlayButton"})
            => /\ UNCHANGED <<headPosRef, yawRef, spineRef, scoreRef, headWrapShiftRef>>
               /\ QueuedScore(pending', score') = QueuedScore(pending, score)
               /\ QueuedPaused(pending', isPaused') = QueuedPaused(pending, isPaused)
               /\ QueuedGameOver(pending', isGameOver') = QueuedGameOver(pending, isGameOver)]_vars

\* A finished game has been reset twice in a row: the second reset queued its
\* updates behind those of the first, and React has rendered neither.
C12_Witness ==
    /\ handler \in {"onKeyDown", "TouchRestart", "OverlayButton"}
    /\ Cardinality(GameOverSets(pending, FALSE)) = 2
    /\ isGameOver
    /\ FreshGame

\* C13: pressing R while the game is paused or over (as rendered) is a full
\* reset, and pressing R while it is running changes neither the head, the
\* yaw, the spine, the food, the score nor the lifecycle flags, rendered,
\* queued or in the refs.
C13_RestartKey ==
    [][(handler' = "onKeyDown" /\ key' = "r") =>
         IF isPaused \/ isGameOver
         THEN FreshGame' /\ ResetQueued(pending')
         ELSE UNCHANGED <<headPosRef, yawRef, spineRef, foodPosRef, scoreRef,
                          headWrapShiftRef, score, isPaused, isGameOver,
                          isPausedRef, isGameOverRef, pending>>]_vars

\* R has been pressed in a running game, 17 frames or more from the start,
\* and has changed nothing.
C13_Witness ==
    /\ handler = "onKeyDown"
    /\ key = "r"
    /\ ~isPaused /\ ~isGameOver
    /\ headPosRef # Origin
    /\ Len(spineRef) > 1

\* C14: the best score never decreases, and whenever React has rendered every
\* queued update it is the highest score so far, counting the persisted one.
C14_BestIsPeak ==
    /\ [](pending = <<>> => bestScore = peak)
    /\ [][bestScore' >= bestScore]_vars

\* A game that beat the persisted best score of 2 has been reset, and React
\* has rendered the reset: the score is 0 again, the best score 3.
C14_Witness ==
    /\ pending = <<>>
    /\ handler = "commit"
    /\ score = 0
    /\ bestScore = 3
    /\ inputs > 1

\* The controls of the pause and of the camera.
PauseToggled == (handler' = "onKeyDown" /\ key' = " ") \/ handler' = "TouchPause"
Resumed == handler' = "OverlayButton" /\ ~isGameOver
CameraToggled == (handler' = "onKeyDown" /\ key' = "c") \/ handler' = "TouchCam"

\* C15: a pause toggle inverts the paused flag React will render (Running to
\* Paused, Paused to Running), the Resume click makes it false, a camera
\* toggle leaves it; none of the three changes the head, the yaw, the spine,
\* the food, the score or the game-over flag; and the render that shows the
\* flag leaves head, yaw, spine and food where they were.
C15_PauseKeepsGame ==
    [][/\ PauseToggled
            => QueuedPaused(pending', isPaused') = ~QueuedPaused(pending, isPaused)
       /\ Resumed => ~QueuedPaused(pending', isPaused')
       /\ CameraToggled
            => QueuedPaused(pending', isPaused') = QueuedPaused(pending, isPaused)
       /\ (PauseToggled \/ Resumed \/ CameraToggled)
            => /\ UNCHANGED <<headPosRef, yawRef, spineRef, foodPosRef, scoreRef,
                              headWrapShiftRef, score, isGameOver>>
               /\ QueuedScore(pending', score') = QueuedScore(pending, score)
               /\ QueuedGameOver(pending', isGameOver') = QueuedGameOver(pending, isGameOver)
       /\ handler' = "commit"
            => /\ isPaused' = QueuedPaused(pending, isPaused)
               /\ isPausedRef' = isPaused'
               /\ UNCHANGED <<headPosRef, yawRef, spineRef, foodPosRef>>]_vars

\* The Resume button has just been clicked in a paused game whose head had
\* moved and whose food had been eaten.
C15_Witness ==
    /\ handler = "OverlayButton"
    /\ isPaused
    /\ ~isGameOver
    /\ ~QueuedPaused(pending, isPaused)
    /\ headPosRef # Origin
    /\ score > 0

\* The farthest a step may take the head: BASE_SPEED * 1.35 * 0.2.
LongestStep == Quot(BASE_SPEED * (100 + BOOST_PERCENT) * MAX_DT, 100 * T)

\* C16: the delta time of every frame, which step and renderSnake both take,
\* is at most 0.2 s whatever the gap between the timestamps and whether or
\* not the game is paused or over, and the step moves the head (across the
\* edge of the arena, in wrap mode) by at most BASE_SPEED * 1.35 * 0.2.
C16_DeltaClamped ==
    [][FrameStep =>
         /\ frameDt' <= MAX_DT
         /\ gameDistance(isWallWrapEnabledRef, headPosRef, headPosRef') <= LongestStep]_vars

\* The first frame came a second after the mount, with the faster key held:
\* the step has moved the head by the full 2.16 units.
C16_Witness ==
    /\ pc = "render"
    /\ frames = 1
    /\ frameDt = MAX_DT
    /\ controlsRef.keyFaster
    /\ headPosRef = Vec(0, -LongestStep)

\* No key is down and the joystick is at rest.
ControlsAtRest ==
    /\ ~controlsRef.keySteerLeft /\ ~controlsRef.keySteerRight
    /\ ~controlsRef.keyFaster /\ ~controlsRef.keySlower
    /\ controlsRef.touchSteerAxis = 0 /\ controlsRef.touchSpeedAxis = 0

\* C17: in wrap mode, with yaw 0 and the controls at rest, a running step
\* with delta dt keeps yaw 0 and head.x, and takes head.z down by
\* BASE_SPEED * dt: from the origin of a fresh game to z = -BASE_SPEED * dt,
\* and on in -z, until the step that crosses the edge, which folds z by the
\* arena size.
C17_StraightAhead ==
    [][(FrameStep /\ StepRuns /\ isWallWrapEnabledRef /\ yawRef = 0 /\ ControlsAtRest) =>
         /\ yawRef' = 0
         /\ headPosRef'.x = headPosRef.x
         /\ headPosRef'.z =
              IF headPosRef.z - Quot(BASE_SPEED * frameDt', T) >= -HALF_ARENA
              THEN headPosRef.z - Quot(BASE_SPEED * frameDt', T)
              ELSE headPosRef.z - Quot(BASE_SPEED * frameDt', T) + ARENA_SIZE]_vars

\* The first step of a fresh game in wrap mode, with a delta of 0.2 s, has
\* put the head at x = 0, z = -1.6.
C17_Witness ==
    /\ pc = "render"
    /\ frames = 1
    /\ isWallWrapEnabledRef
    /\ ControlsAtRest
    /\ frameDt = MAX_DT
    /\ yawRef = 0
    /\ headPosRef = Vec(0, -Quot(BASE_SPEED * MAX_DT, T))
    /\ spineRef = <<headPosRef, Origin>>

\* The head's displacement is rounded towards zero in each coordinate, and
\* its length rounded down: together less than 3/U.
StepRounding == 3

\* The distance a step covers at percent hundredths of BASE_SPEED.
StepLength(percent, dt) == Quot(BASE_SPEED * percent * dt, 100 * T)

\* C18: whatever the keys and the joystick, held the same way or not, a step
\* changes the yaw by at most TURN_SPEED * steerSensitivity * dt, the speed
\* it uses is between 0.65 and 1.35 times BASE_SPEED, and it moves the head
\* between 0.65 and 1.35 times BASE_SPEED * dt.
C18_AxesClamped ==
    [][(FrameStep /\ StepRuns) =>
         /\ Abs(yawRef' - yawRef)
              <= Quot(TURN_SPEED * steerSensitivityRef * frameDt', SU * T)
         /\ speedOf(controlsRef) >= (BASE_SPEED * (100 - BOOST_PERCENT)) \div 100
         /\ speedOf(controlsRef) <= (BASE_SPEED * (100 + BOOST_PERCENT)) \div 100
         /\ gameDistance(isWallWrapEnabledRef, headPosRef, headPosRef')
              <= StepLength(100 + BOOST_PERCENT, frameDt')
         /\ gameDistance(isWallWrapEnabledRef, headPosRef, headPosRef')
              >= StepLength(100 - BOOST_PERCENT, frameDt') - StepRounding]_vars

\* The left key and the faster key are down and the joystick is pushed fully
\* left and fully forward: the first step, of 0.2 s, has turned the yaw by
\* 2.3 * 0.2 and moved the head by 2.16 or a rounding less.
C18_Witness ==
    /\ pc = "render"
    /\ frames = 1
    /\ frameDt = MAX_DT
    /\ controlsRef.keySteerLeft /\ controlsRef.touchSteerAxis = -AX
    /\ controlsRef.keyFaster /\ controlsRef.touchSpeedAxis = -AX
    /\ yawRef = -Quot(TURN_SPEED * SU * MAX_DT, SU * T)
    /\ distanceTo(Origin, headPosRef) >= StepLength(100 + BOOST_PERCENT, MAX_DT) - StepRounding

\* C19: once the component is torn down no frame callback is requested, the
\* key listeners are off, no timer is pending, and neither a frame, a key
\* handler nor a timer callback runs again.
C19_CleanTeardown ==
    /\ [](~mounted => (~rafRequested /\ ~listening /\ timeouts = 0))
    /\ [][~mounted => handler' \notin {"animate", "onKeyDown", "onKeyUp", "timeout"}]_vars

\* Some pulse of n parts is among those the handler requested.
Pulsed(requested, n) == \E i \in 1 .. Len(requested) : Len(requested[i]) = n

\* The paused flag React will render changes, in a handler that is no reset.
PauseChanged ==
    /\ ~ResetCalled
    /\ QueuedPaused(pending', isPaused') # QueuedPaused(pending, isPaused)

\* C20: with haptics enabled, every reset, every change of the paused flag
\* by a control, every camera toggle and every pickup requests a single
\* pulse, and every death the triple pulse.
C20_PulseOnEveryEvent ==
    [][(isHapticsEnabled /\ isHapticsEnabledRef) =>
         /\ (ResetCalled \/ PauseToggled \/ PauseChanged \/ CameraToggled \/ Pickup)
              => Pulsed(vibrated', 1)
         /\ DeathSignalled => Pulsed(vibrated', 3)]_vars

\* -------------------------------------------------------------------- C21
Called(fn) == probe.fn = fn

\* C21: for every coordinate v, negative, zero or positive, wrapCoord(v) is at
\* least -ARENA_SIZE/2 and less than ARENA_SIZE/2, and wrapCoord of v moved by
\* k arenas is wrapCoord(v), for every integer k.
C21_WrapCoordRange ==
    Called("wrapCoord") =>
        /\ -HALF_ARENA <= probe.results[1]
        /\ probe.results[1] < HALF_ARENA
        /\ probe.results[2] = probe.results[1]

\* A coordinate beyond the -x wall, moved by some arenas, was wrapped.
C21_Witness ==
    /\ Called("wrapCoord")
    /\ probe.args[1] < -HALF_ARENA
    /\ probe.args[2] # 0
    /\ probe.results[1] # probe.args[1]

\* -------------------------------------------------------------------- C22
\* r is d moved by whole arenas, and no such value is nearer to 0.
ShortestRepresentative(d, r) ==
    /\ (r - d) % ARENA_SIZE = 0
    /\ \A j \in (-(MaxTurns + 2)) .. (MaxTurns + 2) : Abs(r) <= Abs(d + j * ARENA_SIZE)

\* C22, as stated: for every difference d, wrapDelta(d) is the shortest signed
\* representative of d modulo ARENA_SIZE, greater than -ARENA_SIZE/2 and at
\* most ARENA_SIZE/2; a difference of exactly half the arena maps to
\* +ARENA_SIZE/2.
C22_WrapDeltaOpenBelow ==
    Called("wrapDelta") =>
        /\ ShortestRepresentative(probe.args[1], probe.results[1])
        /\ -HALF_ARENA < probe.results[1]
        /\ probe.results[1] <= HALF_ARENA
        /\ probe.args[1] = HALF_ARENA => probe.results[1] = HALF_ARENA

\* C22, amended: for every difference d, wrapDelta(d) is a shortest signed
\* representative of d modulo ARENA_SIZE, at least -ARENA_SIZE/2 and less than
\* ARENA_SIZE/2; a difference of exactly half the arena maps to
\* -ARENA_SIZE/2.
C22_WrapDeltaOpenAbove ==
    Called("wrapDelta") =>
        /\ ShortestRepresentative(probe.args[1], probe.results[1])
        /\ -HALF_ARENA <= probe.results[1]
        /\ probe.results[1] < HALF_ARENA
        /\ probe.args[1] = HALF_ARENA => probe.results[1] = -HALF_ARENA

\* A difference of exactly half the arena was wrapped.
C22_Witness ==
    /\ Called("wrapDelta")
    /\ probe.args[1] = HALF_ARENA
    /\ Abs(probe.results[1]) = HALF_ARENA

\* -------------------------------------------------------------------- C23
\* Neither difference of a and b is more than half the arena.
NoShortcut(a, b) == Abs(a.x - b.x) <= HALF_ARENA /\ Abs(a.z - b.z) <= HALF_ARENA

\* C23: for all points a and b the torus distance is at most the Euclidean
\* distance in the x/z plane, and equal to it whenever both per-axis
\* differences are within half the arena.
C23_TorusAtMostEuclidean ==
    Called("torusDistanceXZ") =>
        /\ probe.results[1] <= probe.results[2]
        /\ NoShortcut(probe.args[1], probe.args[2]) => probe.results[1] = probe.results[2]

\* Two points more than half an arena apart on both axes: the way round is
\* shorter.
C23_Witness ==
    /\ Called("torusDistanceXZ")
    /\ Abs(probe.args[1].x - probe.args[2].x) > HALF_ARENA
    /\ Abs(probe.args[1].z - probe.args[2].z) > HALF_ARENA
    /\ probe.results[1] < probe.results[2]

\* -------------------------------------------------------------------- C24
\* A frame's render: AnimateRender has just run.
FrameRender == pc = "render" /\ pc' = "idle"

AllSegments(desiredLength) ==
    Min(JsFloor(desiredLength, SEGMENT_SPACING) + 1, maxInstances)

\* Instance i of the body is at arc length i * SEGMENT_SPACING from the head
\* along the spine, wrapped.
SampledAt(spine, i, instance) ==
    instance.at = wrapVectorXZ(sampleAlongSpine(spine, i * SEGMENT_SPACING))

\* C24, as stated: on every rendered frame the number of body segment
\* transforms is min(floor(desiredLength/SEGMENT_SPACING)+1, maxInstances),
\* with segment i sampled at arc length i*SEGMENT_SPACING from the head.
C24_SegmentCount ==
    [][FrameRender =>
         /\ snakeMesh'.count = AllSegments(desiredLengthOf(scoreRef'))
         /\ Len(snakeMesh'.instances) = snakeMesh'.count
         /\ \A i \in 1 .. snakeMesh'.count :
                SampledAt(spineRef', i, snakeMesh'.instances[i])]_vars

\* C24, amended: on every rendered frame the number of body segment
\* transforms is min(floor(desiredLength/SEGMENT_SPACING)+1, maxInstances) - 1,
\* the head being a mesh of its own at arc length 0, with body segment i,
\* from 1 to that number, sampled at arc length i*SEGMENT_SPACING from the
\* head.
C24_BodySegmentCount ==
    [][FrameRender =>
         /\ snakeMesh'.count = AllSegments(desiredLengthOf(scoreRef')) - 1
         /\ Len(snakeMesh'.instances) = snakeMesh'.count
         /\ \A i \in 1 .. snakeMesh'.count :
                SampledAt(spineRef', i, snakeMesh'.instances[i])]_vars

\* A frame was rendered after a pickup: the body has more segments than a
\* fresh snake's.
C24_Witness ==
    /\ pc = "idle"
    /\ frames > 0
    /\ scoreRef > 0
    /\ snakeMesh.count > AllSegments(BASE_LENGTH) - 1
    /\ Len(snakeMesh.instances) = snakeMesh.count

\* -------------------------------------------------------------------- C25
\* The snake has gone straight ahead from the start: no turn, and every spine
\* point in line with the head.
Straight(yaw, headPos, spine) ==
    /\ yaw = 0
    /\ \A i \in 1 .. Len(spine) : spine[i].x = headPos.x

\* C25: a step of a snake that goes in a straight line, at any speed and
\* with any frame delta up to 0.2 s, signals no death by self-collision: it
\* signals a death only at a wall of the bounded arena.
C25_StraightNoSelfHit ==
    [][(FrameStep /\ StepRuns /\ steerAxis(controlsRef) = 0
          /\ Straight(yawRef', headPosRef', spineRef'))
         => (DeathSignalled => ~isWallWrapEnabledRef /\ OutOfBounds(headPosRef'))]_vars

\* -------------------------------------------------------------------- C26
\* The step has handed the death pattern to navigator.vibrate.
DeathPulsed == FrameStep /\ Pulsed(vibrated', Len(DeathPattern))

\* A death has been requested and no reset since: GameOver is rendered, or
\* queued for React to render.
DeathRequested == Reduce(pending, "isGameOver", isGameOver)

\* C26: once a step has requested GameOver, no later frame requests it or
\* emits the death pulse again before a reset, whether or not React has
\* rendered the request and the effect has set isGameOverRef.
C26_DeathSignalledOnce ==
    [][DeathRequested => ~(DeathSignalled \/ DeathPulsed)]_vars

\* -------------------------------------------------------------------- C27
\* C27: with wrap disabled, every frame's render, the frames after a wall
\* death included, hands the renderer a head with the x and z of the simulated
\* head, and moves the camera rig by no arena on account of it.
C27_BoundedHeadAsSimulated ==
    [][(FrameRender /\ ~isWallWrapEnabledRef) =>
         /\ headMesh'.x = headPosRef'.x
         /\ headMesh'.z = headPosRef'.z
         /\ headWrapShiftRef' = Origin]_vars

====
